---- MODULE Spec2Model ----
(***************************************************************************)
(* The EASGD trainer of distkeras/distributed.py: the Trainer process      *)
(* (EASGD.train), the REST service it forks (EASGD.easgd_service, a        *)
(* threaded Flask application) and the workers that Spark maps over the    *)
(* partitions of the data (EASGDWorker.train).                             *)
(*                                                                         *)
(* Granularity.  A `with self.mutex:` block holds one assignment and       *)
(* every access to self.ready goes through such a block, so set_ready and  *)
(* get_ready are single steps.  Everything else in the /update handler     *)
(* runs outside the mutex and is one step per shared access: the handler   *)
(* threads of the service (app.run(threaded=True)) interleave between      *)
(* them.  `Lock` and `Process` are used by the module without an import;   *)
(* they are read as a mutual exclusion lock and as                         *)
(* multiprocessing.Process (the service works on a copy of the trainer).   *)
(***************************************************************************)
EXTENDS Integers, Sequences, FiniteSets, TLC

\* ------------------------------------------------------------- bounds
\* num_workers ranges over 1..MaxWorkers.
MaxWorkers == 2
\* A local training pass moves every weight by a multiple d of its position, d in 0..MaxDelta.
MaxDelta == 1
\* Number of weight tensors of the model (each a single number here).
NumTensors == 2
\* SeqSpec, SnapSpec, SvcSpec: number of /update requests the clients send.
MaxCalls == 4

\* The data arrives with 1..MaxPartitions partitions.
MaxPartitions == MaxWorkers
Partitions == 0 .. (MaxPartitions - 1)
\* One connection (handler thread of the service) per caller.
Slots == Partitions

\* Weight tensors, and the weight deltas a training pass can produce.
Weights(d) == [i \in 1 .. NumTensors |-> d * i]
Deltas == {Weights(d) : d \in 0 .. MaxDelta}
WeightsAdd(a, b) == [i \in 1 .. NumTensors |-> a[i] + b[i]]

\* The weights of the Keras model the trainer is built with (no code looks at them).
MasterWeights == Weights(1)

NoRequest == [worker_id |-> -1, gradient |-> Weights(0)]
NoWeights == <<>>
NoAnswer == [to |-> "none"]

VARIABLES
    \* --- the trainer (parent process) ---
    master_model,   \* Trainer.master_model: the weights of the serialized Keras model
    num_workers,    \* EASGD.num_workers
    model,          \* EASGD.model in the parent process
    service,        \* EASGD.service: "none", "running", "terminated"
    tpc,            \* position of EASGD.train
    partitions,     \* number of partitions of the data handed to train
    result,         \* what EASGD.train returned
    \* --- the service process (a copy of the EASGD object) ---
    center,         \* self.model.get_weights() in the service
    gradients,      \* self.gradients: worker_id -> gradient
    ready,          \* self.ready
    iteration,      \* self.iteration
    \* --- the /update handler threads of the service ---
    hpc,            \* position of the handler of each connection
    hreq,           \* its request: data['worker_id'], data['gradient']
    hiter,          \* the value of self.iteration it read for `+= 1`
    \* --- the workers (EASGDWorker.train per partition) ---
    wpc,            \* position of each worker
    wcenter,        \* EASGDWorker.center_variable as fetched
    wbase,          \* W of line 385: the weights the fit starts from, subtracted in line 389
    \* --- history ---
    accepted,       \* worker ids whose gradient was stored by line 327
    aggregations,   \* number of process_gradients calls
    snapshots,      \* the values of the center variable: at the start, after each aggregation
    seen,           \* worker ids whose pending gradient was in the map at a process_gradients call
    calls,          \* SeqSpec: number of /update requests sent
    trace,          \* SeqSpec: the finished /update calls of the window, in order
    window,         \* SeqSpec: state when the window's first call arrived
    answer          \* SeqSpec: the response of /ready or /center_variable in flight

trainerVars == <<master_model, num_workers, model, service, tpc, partitions, result>>
serviceVars == <<center, gradients, ready, iteration>>
handlerVars == <<hpc, hreq, hiter>>
workerVars == <<wpc, wcenter, wbase>>
historyVars == <<accepted, aggregations, snapshots, seen>>
seqVars == <<calls, trace, window, answer>>
vars == <<trainerVars, serviceVars, handlerVars, workerVars, historyVars, seqVars>>

\* ------------------------------------------------ the code's expressions
\* EASGD.reset, line 266: self.ready = False
reset_ready == FALSE

\* EASGD.reset, line 267: self.iteration = 0
reset_iteration == 0

\* EASGD.reset, line 264: self.gradients = {}
EmptyGradients == <<>>

\* Variant: the first gradient of a worker is kept (setdefault).
store_gradient_first_wins(g, w, v) ==
    [x \in (DOMAIN g) \cup {w} |-> IF x \in DOMAIN g THEN g[x] ELSE v]

\* line 327: self.gradients[worker_id] = gradient
store_gradient(g, w, v) == [x \in (DOMAIN g) \cup {w} |-> IF x = w THEN v ELSE g[x]]

\* Variant: <= for ==.
all_gradients_available_at_most(g, n) == Cardinality(DOMAIN g) <= n

\* Variant: > for ==.
all_gradients_available_more(g, n) == Cardinality(DOMAIN g) > n

\* Variant: the count is taken one short.
all_gradients_available_one_short(g, n) == Cardinality(DOMAIN g) = n - 1

\* line 329: len(self.gradients) == self.num_workers
all_gradients_available(g, n) == Cardinality(DOMAIN g) = n

\* Variant: the pending gradients are added to the center variable.
RECURSIVE SumGradients(_, _)
SumGradients(g, S) ==
    IF S = {} THEN Weights(0)
    ELSE LET w == CHOOSE x \in S : TRUE
         IN  WeightsAdd(g[w], SumGradients(g, S \ {w}))

process_gradients_sum(c, g) == WeightsAdd(c, SumGradients(g, DOMAIN g))

\* EASGD.process_gradients, lines 288-289: prints the iteration; the center
\* variable c is left as it is, whatever the pending gradients g are.
process_gradients(c, g) == c

\* line 314: self.model.get_weights(), every tensor of the model, under the mutex
get_weights(c) == c

\* line 333: self.iteration += 1, the value written from the value read
next_iteration(i) == i + 1

\* lines 299-300: data.repartition(self.num_workers) returns a new dataset
\* that is dropped; mapPartitionsWithIndex runs over data.rdd, which keeps the
\* p partitions the data came with.
mapped_partitions(p, n) == p

\* lines 373 and 385: the worker's model is built from self.model, the
\* serialized master model (line 293), and W = model.get_weights() is taken
\* from it; self.center_variable, as fetched by line 379, is read nowhere.
starting_weights(worker_model, fetched) == worker_model

\* line 304: return self.model, the model object of the calling process
trained_model(parent_model, service_center) == parent_model

\* Variant: the `not` is missing.
leaves_poll_loop_negated(is_ready) == ~is_ready

\* EASGDWorker.train, line 392: while not self.master_is_ready()
leaves_poll_loop(is_ready) == is_ready

\* ------------------------------------------------------------ initial
\* The EASGD object as __init__ and reset leave it (lines 251-267).
Constructed ==
    /\ master_model = MasterWeights
    /\ num_workers \in 1 .. MaxWorkers
    /\ partitions \in 1 .. MaxPartitions
    /\ model = master_model
    /\ result = NoWeights
    /\ center = master_model
    /\ gradients = EmptyGradients
    /\ ready = reset_ready
    /\ iteration = reset_iteration
    /\ hpc = [h \in Slots |-> "idle"]
    /\ hreq = [h \in Slots |-> NoRequest]
    /\ hiter = [h \in Slots |-> 0]
    /\ wpc = [w \in Partitions |-> "idle"]
    /\ wcenter = [w \in Partitions |-> NoWeights]
    /\ wbase = [w \in Partitions |-> NoWeights]
    /\ accepted = {}
    /\ aggregations = 0
    /\ snapshots = {master_model}
    /\ seen = {}
    /\ calls = 0
    /\ trace = <<>>
    /\ window = [iteration |-> 0, aggregations |-> 0]
    /\ answer = NoAnswer

\* The state after EASGD(keras_model, num_workers=n), before train(data).
Init ==
    /\ Constructed
    /\ service = "none"
    /\ tpc = "start_service"

\* ------------------------------------------- /update, lines 318-335
\* Variant: line 325 is missing.
UpdateSetReadyFalse_missing(h) ==
    /\ hpc[h] = "set_ready_false"
    /\ hpc' = [hpc EXCEPT ![h] = "load"]
    /\ UNCHANGED <<trainerVars, serviceVars, hreq, hiter, workerVars, historyVars, seqVars>>

\* line 325: self.set_ready(False)
UpdateSetReadyFalse(h) ==
    /\ hpc[h] = "set_ready_false"
    /\ ready' = FALSE
    /\ hpc' = [hpc EXCEPT ![h] = "load"]
    /\ UNCHANGED <<trainerVars, center, gradients, iteration, hreq, hiter,
                   workerVars, historyVars, seqVars>>

\* line 327, first half: self.gradients is read (the dictionary to store into)
UpdateLoad(h) ==
    /\ hpc[h] = "load"
    /\ hpc' = [hpc EXCEPT ![h] = "store"]
    /\ UNCHANGED <<trainerVars, serviceVars, hreq, hiter, workerVars, historyVars, seqVars>>

\* line 327, second half: the entry is stored into the dictionary that was read.
\* When line 331 replaced self.gradients in between ("store_stale"), the entry
\* goes to the dropped dictionary and is lost.
UpdateStore(h) ==
    /\ hpc[h] \in {"store", "store_stale"}
    /\ gradients' = IF hpc[h] = "store"
                       THEN store_gradient(gradients, hreq[h].worker_id, hreq[h].gradient)
                       ELSE gradients
    /\ accepted' = IF hpc[h] = "store" THEN accepted \cup {hreq[h].worker_id} ELSE accepted
    /\ seen' = IF hpc[h] = "store" THEN seen \ {hreq[h].worker_id} ELSE seen
    /\ hpc' = [hpc EXCEPT ![h] = "check"]
    /\ UNCHANGED <<trainerVars, center, ready, iteration, hreq, hiter, workerVars,
                   aggregations, snapshots, seqVars>>

\* line 329: if len(self.gradients) == self.num_workers
UpdateCheck(h) ==
    /\ hpc[h] = "check"
    /\ hpc' = [hpc EXCEPT ![h] = IF all_gradients_available(gradients, num_workers)
                                    THEN "process" ELSE "done"]
    /\ UNCHANGED <<trainerVars, serviceVars, hreq, hiter, workerVars, historyVars, seqVars>>

\* Variant: process_gradients adds the pending gradients to the center variable,
\* one tensor per step (hiter counts the tensors written), outside the mutex as
\* line 330 is.
UpdateProcess_tensorwise(h) ==
    /\ hpc[h] = "process"
    /\ LET i == hiter[h] + 1
           sum == SumGradients(gradients, DOMAIN gradients)
       IN  /\ center' = [center EXCEPT ![i] = @ + sum[i]]
           /\ IF i = NumTensors
                 THEN /\ hpc' = [hpc EXCEPT ![h] = "clear"]
                      /\ hiter' = [hiter EXCEPT ![h] = 0]
                      /\ aggregations' = aggregations + 1
                      /\ snapshots' = snapshots \cup {center'}
                      /\ seen' = seen \cup DOMAIN gradients
                 ELSE /\ hiter' = [hiter EXCEPT ![h] = i]
                      /\ UNCHANGED <<hpc, aggregations, snapshots, seen>>
    /\ UNCHANGED <<trainerVars, gradients, ready, iteration, hreq, workerVars,
                   accepted, seqVars>>

\* line 330: self.process_gradients()
UpdateProcess(h) ==
    /\ hpc[h] = "process"
    /\ center' = process_gradients(center, gradients)
    /\ aggregations' = aggregations + 1
    /\ snapshots' = snapshots \cup {center'}
    /\ seen' = seen \cup DOMAIN gradients
    /\ hpc' = [hpc EXCEPT ![h] = "clear"]
    /\ UNCHANGED <<trainerVars, gradients, ready, iteration, hreq, hiter, workerVars,
                   accepted, seqVars>>

\* line 331: self.gradients = {}  (a new dictionary; a handler that read the old
\* one at line 327 and has not stored yet stores into the old one)
UpdateClear(h) ==
    /\ hpc[h] = "clear"
    /\ gradients' = EmptyGradients
    /\ hpc' = [k \in Slots |-> IF k = h THEN "set_ready_true"
                               ELSE IF hpc[k] = "store" THEN "store_stale" ELSE hpc[k]]
    /\ seen' = {}
    /\ UNCHANGED <<trainerVars, center, ready, iteration, hreq, hiter, workerVars,
                   accepted, aggregations, snapshots, seqVars>>

\* line 332: self.set_ready(True)
UpdateSetReadyTrue(h) ==
    /\ hpc[h] = "set_ready_true"
    /\ ready' = TRUE
    /\ hpc' = [hpc EXCEPT ![h] = "iteration_read"]
    /\ UNCHANGED <<trainerVars, center, gradients, iteration, hreq, hiter, workerVars,
                   historyVars, seqVars>>

\* line 333, first half: self.iteration is read
UpdateIterationRead(h) ==
    /\ hpc[h] = "iteration_read"
    /\ hiter' = [hiter EXCEPT ![h] = iteration]
    /\ hpc' = [hpc EXCEPT ![h] = "iteration_write"]
    /\ UNCHANGED <<trainerVars, serviceVars, hreq, workerVars, historyVars, seqVars>>

\* line 333, second half: self.iteration is written; line 335: return 'OK'
UpdateIterationWrite(h) ==
    /\ hpc[h] = "iteration_write"
    /\ iteration' = next_iteration(hiter[h])
    /\ hiter' = [hiter EXCEPT ![h] = 0]
    /\ hpc' = [hpc EXCEPT ![h] = "done"]
    /\ UNCHANGED <<trainerVars, center, gradients, ready, hreq, workerVars,
                   historyVars, seqVars>>

\* One step of the /update handler thread of connection h.
UpdateStep(h) ==
    \/ UpdateSetReadyFalse(h)
    \/ UpdateLoad(h)
    \/ UpdateStore(h)
    \/ UpdateCheck(h)
    \/ UpdateProcess(h)
    \/ UpdateClear(h)
    \/ UpdateSetReadyTrue(h)
    \/ UpdateIterationRead(h)
    \/ UpdateIterationWrite(h)

\* --------------------------------------- EASGD.train, lines 291-304
\* line 293: self.start_service(): the service process starts on a copy of self
StartService ==
    /\ tpc = "start_service"
    /\ service' = "running"
    /\ center' = model
    /\ tpc' = "dispatch"
    /\ UNCHANGED <<master_model, num_workers, model, partitions, result, gradients, ready,
                   iteration, handlerVars, workerVars, historyVars, seqVars>>

\* lines 295-300: the worker is built, the data "repartitioned", and one
\* EASGDWorker.train(index, iterator) is started per partition of data.rdd
Dispatch ==
    /\ tpc = "dispatch"
    /\ wpc' = [w \in Partitions |->
                  IF w < mapped_partitions(partitions, num_workers) THEN "fetch" ELSE "idle"]
    /\ tpc' = "collect"
    /\ UNCHANGED <<master_model, num_workers, model, service, partitions, result,
                   serviceVars, handlerVars, wcenter, wbase, historyVars, seqVars>>

Dispatched == {w \in Partitions : wpc[w] # "idle"}

\* Variant: the service is stopped without waiting for collect().
StopService_without_collect ==
    /\ tpc = "collect"
    /\ service' = "terminated"
    /\ tpc' = "return"
    /\ UNCHANGED <<master_model, num_workers, model, partitions, result, serviceVars,
                   handlerVars, workerVars, historyVars, seqVars>>

\* line 300: collect() returns once every invocation has returned;
\* line 302: self.stop_service()
StopService ==
    /\ tpc = "collect"
    /\ \A w \in Dispatched : wpc[w] = "returned"
    /\ service' = "terminated"
    /\ tpc' = "return"
    /\ UNCHANGED <<master_model, num_workers, model, partitions, result, serviceVars,
                   handlerVars, workerVars, historyVars, seqVars>>

\* line 304: return self.model
ReturnModel ==
    /\ tpc = "return"
    /\ result' = trained_model(model, center)
    /\ tpc' = "returned"
    /\ UNCHANGED <<master_model, num_workers, model, service, partitions, serviceVars,
                   handlerVars, workerVars, historyVars, seqVars>>

\* ---------------------------------- EASGDWorker.train, lines 371-395
\* line 379: self.fetch_center_variable(); /center_variable, lines 311-316
WorkerFetch(w) ==
    /\ wpc[w] = "fetch"
    /\ service = "running"
    /\ wcenter' = [wcenter EXCEPT ![w] = get_weights(center)]
    /\ wpc' = [wpc EXCEPT ![w] = "train"]
    /\ UNCHANGED <<trainerVars, serviceVars, handlerVars, wbase, historyVars, seqVars>>

\* lines 381-390: one local epoch, gradient = weights after - weights before,
\* master_send_gradient(index, gradient): the /update request reaches the service
WorkerSend(w) ==
    /\ wpc[w] = "train"
    /\ service = "running"
    /\ \E g \in Deltas :
          hreq' = [hreq EXCEPT ![w] = [worker_id |-> w, gradient |-> g]]
    /\ hpc' = [hpc EXCEPT ![w] = "set_ready_false"]
    /\ wbase' = [wbase EXCEPT ![w] = starting_weights(master_model, wcenter[w])]
    /\ wpc' = [wpc EXCEPT ![w] = "wait"]
    /\ UNCHANGED <<trainerVars, serviceVars, hiter, wcenter, historyVars, seqVars>>

\* line 363: rest_post returns with the handler's 'OK'
WorkerReceive(w) ==
    /\ wpc[w] = "wait"
    /\ hpc[w] = "done"
    /\ hpc' = [hpc EXCEPT ![w] = "idle"]
    /\ hreq' = [hreq EXCEPT ![w] = NoRequest]
    /\ wpc' = [wpc EXCEPT ![w] = "poll"]
    /\ UNCHANGED <<trainerVars, serviceVars, hiter, wcenter, wbase, historyVars, seqVars>>

\* lines 392-393: one round of the poll loop; /ready, lines 337-341.
\* A false answer sleeps and asks again; a true one leaves the loop (line 395).
WorkerPoll(w) ==
    /\ wpc[w] = "poll"
    /\ service = "running"
    /\ wpc' = [wpc EXCEPT ![w] = IF leaves_poll_loop(ready) THEN "returned" ELSE "poll"]
    /\ UNCHANGED <<trainerVars, serviceVars, handlerVars, wcenter, wbase, historyVars, seqVars>>

\* A rest_get/rest_post that fails, or a crash of the task, before the /update
\* request reaches the service: urllib2's error is caught nowhere and ends the
\* invocation.  (A worker that stops later is a worker that takes no more steps.)
WorkerAbort(w) ==
    /\ wpc[w] \in {"fetch", "train"}
    /\ wpc' = [wpc EXCEPT ![w] = "aborted"]
    /\ UNCHANGED <<trainerVars, serviceVars, handlerVars, wcenter, wbase, historyVars, seqVars>>

WorkerStep(w) ==
    \/ WorkerFetch(w)
    \/ WorkerSend(w)
    \/ WorkerReceive(w)
    \/ WorkerPoll(w)

Running == service = "running"

\* ------------------------------------------------------ specifications
NextNoFailure ==
    \/ StartService
    \/ Dispatch
    \/ StopService
    \/ ReturnModel
    \/ \E w \in Partitions : WorkerStep(w)
    \/ \E h \in Slots : Running /\ UpdateStep(h)

Next ==
    \/ NextNoFailure
    \/ \E w \in Partitions : WorkerAbort(w)

\* One training run, workers may fail.
Spec == Init /\ [][Next]_vars

\* One training run in which no request fails and no task crashes; every worker,
\* every handler thread of the service and the trainer keep being scheduled.
Fairness ==
    /\ WF_vars(StartService \/ Dispatch \/ StopService \/ ReturnModel)
    /\ \A w \in Partitions : WF_vars(WorkerStep(w))
    /\ \A h \in Slots : WF_vars(Running /\ UpdateStep(h))

FairSpec == Init /\ [][NextNoFailure]_vars /\ Fairness

\* ------------------------------------------- the service, called in turn
\* The service as started by start_service, its three routes called by clients
\* one request after the other: a request is sent when the response of the one
\* before has been received.
SeqInit ==
    /\ Constructed
    /\ service = "running"
    /\ tpc = "dispatch"

Idle == (\A h \in Slots : hpc[h] = "idle") /\ answer = NoAnswer

\* POST /update with {worker_id: w, gradient: g}, on the connection of client w.
\* A request that finds no pending gradient opens a window.
SeqSubmit(w, g) ==
    /\ Idle
    /\ calls < MaxCalls
    /\ calls' = calls + 1
    /\ hreq' = [hreq EXCEPT ![w] = [worker_id |-> w, gradient |-> g]]
    /\ hpc' = [hpc EXCEPT ![w] = "set_ready_false"]
    /\ IF gradients = EmptyGradients
          THEN /\ trace' = <<>>
               /\ window' = [iteration |-> iteration, aggregations |-> aggregations]
          ELSE UNCHANGED <<trace, window>>
    /\ UNCHANGED <<trainerVars, serviceVars, hiter, workerVars, historyVars, answer>>

\* The client reads the 'OK' of line 335.
SeqReceive(h) ==
    /\ hpc[h] = "done"
    /\ trace' = Append(trace, hreq[h])
    /\ hpc' = [hpc EXCEPT ![h] = "idle"]
    /\ hreq' = [hreq EXCEPT ![h] = NoRequest]
    /\ UNCHANGED <<trainerVars, serviceVars, hiter, workerVars, historyVars, calls,
                   window, answer>>

\* GET /ready, lines 337-341: get_ready under the mutex
SeqReady ==
    /\ Idle
    /\ answer' = [to |-> "ready", value |-> ready]
    /\ UNCHANGED <<trainerVars, serviceVars, handlerVars, workerVars, historyVars,
                   calls, trace, window>>

\* GET /center_variable, lines 311-316: get_weights under the mutex
SeqCenterVariable ==
    /\ Idle
    /\ answer' = [to |-> "center_variable", value |-> get_weights(center)]
    /\ UNCHANGED <<trainerVars, serviceVars, handlerVars, workerVars, historyVars,
                   calls, trace, window>>

\* The client reads the response of /ready or /center_variable.
SeqAnswered ==
    /\ answer # NoAnswer
    /\ answer' = NoAnswer
    /\ UNCHANGED <<trainerVars, serviceVars, handlerVars, workerVars, historyVars,
                   calls, trace, window>>

SeqNext ==
    \/ \E w \in 0 .. (num_workers - 1), g \in Deltas : SeqSubmit(w, g)
    \/ \E h \in Slots : UpdateStep(h)
    \/ \E h \in Slots : SeqReceive(h)
    \/ SeqReady
    \/ SeqCenterVariable
    \/ SeqAnswered

SeqSpec == SeqInit /\ [][SeqNext]_vars

\* ------------------------- the service, read while an /update is served
\* As SeqSpec for the /update requests (one after the other), with
\* /center_variable and /ready served at any time, also in the middle of an
\* /update handler; the answer is read by the client before anything else
\* happens.
\* GET /center_variable, lines 311-316
SnapCenterVariable ==
    /\ answer = NoAnswer
    /\ answer' = [to |-> "center_variable", value |-> get_weights(center)]
    /\ UNCHANGED <<trainerVars, serviceVars, handlerVars, workerVars, historyVars,
                   calls, trace, window>>

\* GET /ready, lines 337-341
SnapReady ==
    /\ answer = NoAnswer
    /\ answer' = [to |-> "ready", value |-> ready]
    /\ UNCHANGED <<trainerVars, serviceVars, handlerVars, workerVars, historyVars,
                   calls, trace, window>>

SnapNext ==
    \/ \E w \in 0 .. (num_workers - 1), g \in Deltas : SeqSubmit(w, g)
    \/ \E h \in Slots : answer = NoAnswer /\ UpdateStep(h)
    \/ \E h \in Slots : answer = NoAnswer /\ SeqReceive(h)
    \/ SnapCenterVariable
    \/ SnapReady
    \/ SeqAnswered

SnapSpec == SeqInit /\ [][SnapNext]_vars

\* --------------------------------------- the service, called concurrently
\* The service as started by start_service, with clients that send /update
\* requests at any time: every request is served by a thread of its own, the
\* threads interleave.  A client may send any worker id: the ids 0..num_workers-1 any
\* number of times, and the id num_workers, which no worker of the run has.
SvcInit == SeqInit

WorkerIds == 0 .. num_workers

\* POST /update with {worker_id: w, gradient: g} arrives; the lowest free
\* handler thread h serves it.
SvcSubmit(h, w, g) ==
    /\ hpc[h] = "idle"
    /\ \A k \in Slots : k < h => hpc[k] # "idle"
    /\ calls < MaxCalls
    /\ calls' = calls + 1
    /\ hreq' = [hreq EXCEPT ![h] = [worker_id |-> w, gradient |-> g]]
    /\ hpc' = [hpc EXCEPT ![h] = "set_ready_false"]
    /\ UNCHANGED <<trainerVars, serviceVars, hiter, workerVars, historyVars,
                   trace, window, answer>>

\* The client reads the 'OK' of line 335; the thread ends.
SvcReceive(h) ==
    /\ hpc[h] = "done"
    /\ hpc' = [hpc EXCEPT ![h] = "idle"]
    /\ hreq' = [hreq EXCEPT ![h] = NoRequest]
    /\ UNCHANGED <<trainerVars, serviceVars, hiter, workerVars, historyVars, seqVars>>

SvcNext ==
    \/ \E h \in Slots, w \in WorkerIds, g \in Deltas : SvcSubmit(h, w, g)
    \/ \E h \in Slots : UpdateStep(h)
    \/ \E h \in Slots : SvcReceive(h)

SvcSpec == SvcInit /\ [][SvcNext]_vars

\* ------------------------------------------------------------- claims
Expected == 0 .. (num_workers - 1)
HandlersIdle == \A h \in Slots : hpc[h] = "idle"
TraceIds == {trace[i].worker_id : i \in 1 .. Len(trace)}
AggregationSteps == {"process", "clear", "set_ready_true", "iteration_read", "iteration_write"}

\* The finished calls of the window are one call per worker id in [0, N).
DistinctWindow == Len(trace) = num_workers /\ TraceIds = Expected

\* C1: calls made one after the other, from a state with no pending gradient:
\* after N calls with the N distinct ids of [0, N), in any order, no gradient
\* is pending, the iteration counter is one above its value at the first call,
\* and the ready flag is set; in the first window and in every later one.
C1_ConvergentAggregation ==
    (HandlersIdle /\ DistinctWindow) =>
        /\ gradients = EmptyGradients
        /\ iteration = window.iteration + 1
        /\ ready = TRUE

\* A second window of two distinct workers has been completed.
C1_Witness ==
    /\ HandlersIdle /\ DistinctWindow
    /\ num_workers = 2
    /\ window.iteration = 1
    /\ trace[1].worker_id = 1

ExactlyNWorkers == partitions = num_workers

\* C3: in a run with exactly N workers, a worker that has left its poll loop
\* implies that the gradient of every one of the N workers has been stored by
\* the service, in every interleaving.
C3_Barrier ==
    ExactlyNWorkers =>
        \A w \in Partitions : wpc[w] = "returned" => accepted = Expected

\* One of two workers has returned while the other is still polling.
C3_Witness ==
    /\ ExactlyNWorkers
    /\ num_workers = 2
    /\ wpc[0] = "returned"
    /\ wpc[1] = "poll"

\* C4: in a run with exactly N workers and no failure, under weak fairness of
\* the trainer, of every worker and of every handler thread, a state is
\* eventually reached in which the ready flag is true, every worker has
\* returned, and train has stopped the service and returned.
C4_Termination ==
    ExactlyNWorkers =>
        <>(/\ ready = TRUE
           /\ \A w \in Expected : wpc[w] = "returned"
           /\ tpc = "returned"
           /\ service = "terminated")

\* A run of two workers has returned after both handlers ran the aggregation.
C4_Witness ==
    /\ ExactlyNWorkers
    /\ num_workers = 2
    /\ tpc = "returned"
    /\ aggregations = 2

\* Every one of the N workers has its 'OK'.
AllSubmitted == \A w \in Expected : wpc[w] \in {"poll", "returned"}

\* C5: in a run with exactly N workers, once every worker's /update has been
\* answered, the aggregation step has run exactly once and the iteration
\* counter is 1, in every interleaving of the handlers.
C5_SingleAggregation ==
    (ExactlyNWorkers /\ AllSubmitted) => (aggregations = 1 /\ iteration = 1)

\* C6: calls made one after the other: an /update of a worker id that has a
\* pending entry replaces the entry, leaves the set of pending ids as it was
\* and runs no aggregation step.  With N = 2, after worker 0 submitted twice
\* one gradient is pending and the flag is false; the aggregation runs in the
\* call of worker 1, on worker 0's second gradient and worker 1's.
C6_LastWriteWins ==
    /\ \A h \in Slots :
          (hpc[h] # "idle" /\ hreq[h].worker_id \in TraceIds) =>
              /\ hpc[h] \notin AggregationSteps
              /\ DOMAIN gradients = TraceIds
              /\ aggregations = window.aggregations
              /\ (hpc[h] \in {"check", "done"} =>
                    gradients[hreq[h].worker_id] = hreq[h].gradient)
    /\ (num_workers = 2 /\ Len(trace) = 2 /\ TraceIds = {0}) =>
          /\ HandlersIdle =>
                (DOMAIN gradients = {0} /\ gradients[0] = trace[2].gradient /\ ready = FALSE)
          /\ hpc[0] = "idle" /\ hpc[1] \notin AggregationSteps \cup {"done"} =>
                aggregations = window.aggregations
          /\ hpc[1] = "process" =>
                gradients = (0 :> trace[2].gradient) @@ (1 :> hreq[1].gradient)
          /\ hpc[1] = "done" =>
                (aggregations = window.aggregations + 1 /\ gradients = EmptyGradients
                   /\ ready = TRUE)

\* Worker 0 submitted two different gradients, worker 1 is in the aggregation step.
C6_Witness ==
    /\ num_workers = 2
    /\ Len(trace) = 2
    /\ TraceIds = {0}
    /\ trace[1].gradient # trace[2].gradient
    /\ hpc[1] = "process"

\* C7: N = 2, calls made one after the other on a service started with the
\* weights W0: after worker 0 submitted dW0 and worker 1 submitted dW1, /ready
\* answers true, the iteration counter is 1 and /center_variable answers
\* W0 + dW0 + dW1.
C7_SummationScenario ==
    (/\ num_workers = 2
     /\ HandlersIdle
     /\ window.iteration = 0
     /\ Len(trace) = 2
     /\ trace[1].worker_id = 0
     /\ trace[2].worker_id = 1) =>
        /\ iteration = 1
        /\ (answer.to = "ready" => answer.value = TRUE)
        /\ (answer.to = "center_variable" =>
              answer.value = WeightsAdd(WeightsAdd(master_model, trace[1].gradient),
                                        trace[2].gradient))

\* C8: whatever the number of partitions the data comes with, train starts
\* exactly num_workers invocations of EASGDWorker.train, with the indices
\* 0..num_workers-1.
C8_OneWorkerPerExpectedPartition ==
    tpc \in {"collect", "return", "returned"} => Dispatched = Expected

\* C9: the model train returns has the weights of the service's center
\* variable as it was when the service was stopped.
C9_ReturnsCenterVariable ==
    tpc = "returned" => result = center

\* A run of two workers has returned after an aggregation step.
C9_Witness ==
    /\ tpc = "returned"
    /\ num_workers = 2
    /\ aggregations >= 1
    /\ result = master_model

\* C10: in a run with exactly N workers, once a worker has aborted before its
\* /update reached the service, the ready flag is false, fewer than N gradients
\* are pending, no worker has left its poll loop and train is still waiting in
\* collect.
C10_StallOnFailure ==
    (ExactlyNWorkers /\ \E w \in Partitions : wpc[w] = "aborted") =>
        /\ ready = FALSE
        /\ Cardinality(DOMAIN gradients) < num_workers
        /\ \A v \in Partitions : wpc[v] # "returned"
        /\ tpc = "collect"
        /\ service = "running"

\* One of two workers aborted; the other has submitted and polls.
C10_Witness ==
    /\ ExactlyNWorkers
    /\ num_workers = 2
    /\ wpc[0] = "aborted"
    /\ wpc[1] = "poll"
    /\ 1 \in accepted

\* C11: a /center_variable answered while an /update handler runs the
\* aggregation step (or at any other time) is a complete value of the center
\* variable: the one before the aggregation or the one after it, never tensors
\* of both.
C11_SnapshotIsolation ==
    answer.to = "center_variable" => answer.value \in snapshots

\* /center_variable is answered while a handler is between process_gradients
\* and the clearing of a pending set that holds a non-zero gradient.
C11_Witness ==
    /\ answer.to = "center_variable"
    /\ \E h \in Slots : hpc[h] = "clear"
    /\ \E w \in DOMAIN gradients : gradients[w] # Weights(0)

\* C12: whenever a gradient is pending the ready flag is false, in every
\* interleaving of /update handlers (here with the expected worker ids pending).
C12_PendingImpliesNotReady ==
    (gradients # EmptyGradients /\ DOMAIN gradients \subseteq Expected) => ready = FALSE

\* C13: the pending map never holds more than num_workers gradients, also
\* when unexpected worker ids are submitted.
C13_PendingSizeBounded ==
    Cardinality(DOMAIN gradients) <= num_workers

\* C14: in a run with exactly N workers, at most one /update handler at a
\* time is between a completeness check that succeeded (line 329) and the end
\* of line 333.
C14_AggregationExclusive ==
    ExactlyNWorkers => Cardinality({h \in Slots : hpc[h] \in AggregationSteps}) <= 1

\* C15: in a run with exactly N workers, a gradient stored by line 327 is in
\* the pending map of exactly one process_gradients call: no call finds a
\* pending gradient that an earlier call has found, no clearing of the map
\* drops a gradient that no call has found, and the store puts the gradient
\* into the map the next call reads.
C15_ConsumedExactlyOnce ==
    [][\A h \in Slots :
          /\ (ExactlyNWorkers /\ UpdateProcess(h)) => DOMAIN gradients \cap seen = {}
          /\ (ExactlyNWorkers /\ UpdateClear(h)) => DOMAIN gradients \subseteq seen
          /\ (ExactlyNWorkers /\ UpdateStore(h)) => hreq[h].worker_id \in DOMAIN gradients'
      ]_vars

\* The number of aggregation steps that have run their set_ready(True), line 332.
ReadySettings ==
    aggregations - Cardinality({h \in Slots : hpc[h] \in {"clear", "set_ready_true"}})

\* C16: an /ready answered with true finds the iteration counter equal to the
\* number of aggregation steps that have set the flag to true: the counter is
\* advanced before the flag is set.
C16_CounterAdvancedBeforeReady ==
    (answer.to = "ready" /\ answer.value = TRUE) => iteration = ReadySettings

\* C17: in every worker invocation that has trained, W, the weights the fit
\* started from and the baseline of the gradient, has the value of the center
\* variable this invocation fetched.
C17_TrainsFromFetchedCenter ==
    \A w \in Partitions :
        wpc[w] \in {"wait", "poll", "returned"} => wbase[w] = wcenter[w]

\* A worker has fetched, trained and sent a non-zero gradient.
C17_Witness ==
    \E w \in Partitions :
        /\ wpc[w] = "wait"
        /\ hreq[w].gradient # Weights(0)
        /\ wcenter[w] # NoWeights
        /\ wbase[w] = wcenter[w]

\* C18: no worker invocation is dispatched while the service is not started,
\* and once the service is terminated every dispatched invocation has
\* returned: no invocation is left that could send a request to it.
C18_ServiceSpansWorkers ==
    /\ service = "none" => Dispatched = {}
    /\ service = "terminated" => \A w \in Dispatched : wpc[w] = "returned"

\* The service is terminated after two invocations were dispatched and returned.
C18_Witness ==
    /\ service = "terminated"
    /\ Cardinality(Dispatched) = 2
    /\ \A w \in Dispatched : wpc[w] = "returned"

\* C19: the center variable is the master model's weights in every state, and
\* every /center_variable answer carries them, whatever gradients were
\* submitted and whatever aggregation steps have run.
C19_CenterNeverChanges ==
    /\ center = master_model
    /\ answer.to = "center_variable" => answer.value = master_model

\* /center_variable is answered after the aggregation step of a window of N
\* calls that carried a non-zero gradient.
C19_Witness ==
    /\ answer.to = "center_variable"
    /\ answer.value = master_model
    /\ HandlersIdle
    /\ DistinctWindow
    /\ aggregations = window.aggregations + 1
    /\ \E i \in 1 .. Len(trace) : trace[i].gradient # Weights(0)

====
